---- MODULE Spec2Model ----
(***************************************************************************)
(* Model of common/schedulers/slurm_commands.py: get_pending_jobs_info and *)
(* the two node-recomputation passes it calls.                             *)
(*                                                                         *)
(* One call of get_pending_jobs_info is followed from the point where      *)
(* get_jobs_info has returned the pending jobs (line 77).  Each loop       *)
(* iteration of a pass is one step; an uncaught ZeroDivisionError ends the *)
(* call with the jobs handled so far already changed.                      *)
(*                                                                         *)
(* float()/math.ceil arithmetic is modelled on integers: every quantity of *)
(* the model is far below 2^53, where the float operations are exact.      *)
(***************************************************************************)
EXTENDS Integers, Sequences, FiniteSets

\* ------------------------------------------------------------------ bounds
MaxJobs == 3
MaxNodes == 2
MaxCpus == 4
MaxMinCpus == 3
MaxTasks == 3
MaxGpus == 3
MaxSlots == 4
MaxGpusPerNode == 4
MaxNodesFilter == 3

\* ------------------------------------------------------------ Python values
\* Python's None for an integer argument or a missing dict key.  Every integer
\* the model stores in such a place is >= 0.
None == -1

\* Truth value of an int-or-None in "if x:".
Truthy(x) == x # None /\ x # 0

\* dict.get(key): the value, or None.
Get(d, k) == IF k \in DOMAIN d THEN d[k] ELSE None

\* max(a, b)
Max(a, b) == IF a >= b THEN a ELSE b

\* The empty dict; a tres dict is a function from resource names to counts.
EmptyDict == [k \in {} |-> 0]

GpuDict(g) == [k \in {"gpu"} |-> g]

PENDING_RESOURCES_REASONS ==
    { "Resources",
      "Nodes required for job are DOWN, DRAINED or reserved for jobs in higher priority partitions",
      "BeginTime",
      "NodeDown",
      "Priority",
      "ReqNodeNotAvail, May be reserved for other job" }

\* SlurmJob.__init__ for a job squeue lists with --states PD.
SlurmJob(id, nodes, cpus_total, tasks, cpus_per_task, cpus_min_per_node, pending_reason, tres_per_job, tres_per_task, tres_per_node) ==
    [ id |-> id, state |-> "PD", nodes |-> nodes, cpus_total |-> cpus_total,
      tasks |-> tasks, cpus_per_task |-> cpus_per_task,
      cpus_min_per_node |-> cpus_min_per_node, pending_reason |-> pending_reason,
      tres_per_job |-> tres_per_job, tres_per_task |-> tres_per_task,
      tres_per_node |-> tres_per_node ]

\* ------------------------------------------------------------------- state
VARIABLES
    pending_jobs,               \* the SlurmJob list of the call, changed in place
    max_slots_filter,           \* argument: an integer > 0 or None
    max_nodes_filter,           \* argument: an integer > 0 or None
    filter_by_pending_reasons,  \* argument: a set of reasons; {} stands for None and []
    max_gpus_per_node,          \* argument: an integer
    pc,                         \* position in get_pending_jobs_info
    i,                          \* index of the job the running pass handles next
    ret,                        \* the returned list
    exc,                        \* "" or the exception that ended the call
    reported,                   \* history: the jobs as get_jobs_info returned them
    before_gpu                  \* history: the jobs when the GPU pass was called

vars == << pending_jobs, max_slots_filter, max_nodes_filter, filter_by_pending_reasons,
           max_gpus_per_node, pc, i, ret, exc, reported, before_gpu >>

\* ------------------------------------------------ pass 1: slots (lines 130-140)
\* int(math.ceil(float(a) / b)) for a >= 0, b > 0.
CeilDiv(a, b) == IF a % b = 0 THEN a \div b ELSE (a \div b) + 1

\* Line 133 divides by cpus_min_per_node: "node_slots % 0" raises ZeroDivisionError.
slots_reservation_raises(job, node_slots) ==
    node_slots >= job.cpus_min_per_node /\ job.cpus_min_per_node = 0

\* Mutant: line 140 without the max, job.nodes = required_nodes.
slots_reservation_job_no_max(job, node_slots) ==
    IF node_slots >= job.cpus_min_per_node
    THEN LET usable_slots_per_node == node_slots - (node_slots % job.cpus_min_per_node)
             required_nodes == CeilDiv(job.cpus_total, usable_slots_per_node)
         IN  [job EXCEPT !.nodes = required_nodes]
    ELSE job

\* Mutant: line 133 without the remainder taken off, every slot of the node usable.
slots_reservation_job_all_slots(job, node_slots) ==
    IF node_slots >= job.cpus_min_per_node
    THEN LET usable_slots_per_node == node_slots
             required_nodes == CeilDiv(job.cpus_total, usable_slots_per_node)
         IN  [job EXCEPT !.nodes = Max(required_nodes, job.nodes)]
    ELSE job

\* The loop body for one job (when it does not raise).
slots_reservation_job(job, node_slots) ==
    IF node_slots >= job.cpus_min_per_node
    THEN LET usable_slots_per_node == node_slots - (node_slots % job.cpus_min_per_node)
             required_nodes == CeilDiv(job.cpus_total, usable_slots_per_node)
         IN  [job EXCEPT !.nodes = Max(required_nodes, job.nodes)]
    ELSE job

\* -------------------------------------------------- pass 2: GPUs (lines 168-188)
\* Mutant: line 168 with < for <=, so that 0 GPUs per node enter the loop.
gpu_pass_disabled_negative_only(gpus_per_node) == gpus_per_node < 0

\* Line 168: the pass returns at once.
gpu_pass_disabled(gpus_per_node) == gpus_per_node <= 0

\* Mutant: lines 178-179 and 187-188 left out, cpus_total never raised.
raise_min_nodes_only(job, new_min_nodes) ==
    IF new_min_nodes > job.nodes
    THEN [job EXCEPT !.nodes = new_min_nodes]
    ELSE job

\* Mutant: lines 176 and 185 comparing with the nodes squeue reported, not with
\* the nodes the slots pass left.
raise_min_nodes_over_reported(job, new_min_nodes) ==
    LET seen == CHOOSE r \in { reported[k] : k \in 1 .. Len(reported) } : r.id = job.id
    IN  IF new_min_nodes > seen.nodes
        THEN LET nodes == new_min_nodes
             IN  [job EXCEPT !.nodes = nodes,
                             !.cpus_total = IF job.cpus_total < nodes * job.cpus_min_per_node
                                            THEN nodes * job.cpus_min_per_node
                                            ELSE job.cpus_total]
        ELSE job

\* Lines 176-179 and 185-188: raise nodes to new_min_nodes, then cpus_total to its floor.
raise_min_nodes(job, new_min_nodes) ==
    IF new_min_nodes > job.nodes
    THEN LET nodes == new_min_nodes
         IN  [job EXCEPT !.nodes = nodes,
                         !.cpus_total = IF job.cpus_total < nodes * job.cpus_min_per_node
                                        THEN nodes * job.cpus_min_per_node
                                        ELSE job.cpus_total]
    ELSE job

\* Line 175 divides by gpus_per_node.
gpu_per_job_raises(job, gpus_per_node) ==
    Truthy(Get(job.tres_per_job, "gpu")) /\ gpus_per_node = 0

\* Mutant: line 175 with floor division for the ceiling.
gpu_per_job_floor(job, gpus_per_node) ==
    LET gpus_per_job == Get(job.tres_per_job, "gpu")
    IN  IF Truthy(gpus_per_job)
        THEN raise_min_nodes(job, gpus_per_job \div gpus_per_node)
        ELSE job

\* Lines 173-179.
gpu_per_job(job, gpus_per_node) ==
    LET gpus_per_job == Get(job.tres_per_job, "gpu")
    IN  IF Truthy(gpus_per_job)
        THEN raise_min_nodes(job, CeilDiv(gpus_per_job, gpus_per_node))
        ELSE job

\* Line 183: float(gpus_per_node) // gpus_per_task.
tasks_schedulable_per_node(gpus_per_node, gpus_per_task) == gpus_per_node \div gpus_per_task

\* Line 184 divides by tasks_schedulable_per_node: "x / 0.0" raises ZeroDivisionError.
gpu_per_task_raises(job, gpus_per_node) ==
    LET gpus_per_task == Get(job.tres_per_task, "gpu")
    IN  Truthy(gpus_per_task) /\ tasks_schedulable_per_node(gpus_per_node, gpus_per_task) = 0

\* Lines 181-188.
gpu_per_task(job, gpus_per_node) ==
    LET gpus_per_task == Get(job.tres_per_task, "gpu")
    IN  IF Truthy(gpus_per_task)
        THEN raise_min_nodes(job, CeilDiv(job.tasks, tasks_schedulable_per_node(gpus_per_node, gpus_per_task)))
        ELSE job

\* ------------------------------------------------------ filter (lines 81-105)
RECURSIVE filter_loop_prepend(_, _, _, _, _, _)
\* Mutant: line 101 with insert(0, job) for append(job).
filter_loop_prepend(jobs, k, acc, slots, nodes, reasons) ==
    IF k > Len(jobs)
    THEN acc
    ELSE LET job == jobs[k]
         IN  IF Truthy(slots) /\ job.cpus_min_per_node > slots
             THEN filter_loop_prepend(jobs, k + 1, acc, slots, nodes, reasons)
             ELSE IF Truthy(nodes) /\ job.nodes > nodes
             THEN filter_loop_prepend(jobs, k + 1, acc, slots, nodes, reasons)
             ELSE IF reasons # {} /\ job.pending_reason \notin reasons
             THEN filter_loop_prepend(jobs, k + 1, acc, slots, nodes, reasons)
             ELSE filter_loop_prepend(jobs, k + 1, << job >> \o acc, slots, nodes, reasons)

RECURSIVE filter_loop(_, _, _, _, _, _)
\* Lines 83-101: the for loop from job k on, filtered_jobs being acc.
filter_loop(jobs, k, acc, slots, nodes, reasons) ==
    IF k > Len(jobs)
    THEN acc
    ELSE LET job == jobs[k]
         IN  IF Truthy(slots) /\ job.cpus_min_per_node > slots
             THEN filter_loop(jobs, k + 1, acc, slots, nodes, reasons)
             ELSE IF Truthy(nodes) /\ job.nodes > nodes
             THEN filter_loop(jobs, k + 1, acc, slots, nodes, reasons)
             ELSE IF reasons # {} /\ job.pending_reason \notin reasons
             THEN filter_loop(jobs, k + 1, acc, slots, nodes, reasons)
             ELSE filter_loop(jobs, k + 1, Append(acc, job), slots, nodes, reasons)

\* Lines 81-105.
filtered_jobs(jobs, slots, nodes, reasons) ==
    IF Truthy(slots) \/ reasons # {} \/ Truthy(nodes)
    THEN filter_loop(jobs, 1, <<>>, slots, nodes, reasons)
    ELSE jobs

\* ----------------------------------------------------------------- actions
\* Line 78, true branch: the slots pass is called.
EnterRecompute ==
    /\ pc = "start" /\ exc = ""
    /\ Truthy(max_slots_filter)
    /\ pc' = "slots"
    /\ i' = 1
    /\ UNCHANGED << pending_jobs, max_slots_filter, max_nodes_filter,
                    filter_by_pending_reasons, max_gpus_per_node, ret, exc,
                    reported, before_gpu >>

\* Line 78, false branch: neither pass is called.
SkipRecompute ==
    /\ pc = "start" /\ exc = ""
    /\ ~Truthy(max_slots_filter)
    /\ pc' = "filter"
    /\ UNCHANGED << pending_jobs, max_slots_filter, max_nodes_filter,
                    filter_by_pending_reasons, max_gpus_per_node, i, ret, exc,
                    reported, before_gpu >>

\* Lines 130-140, one iteration.
SlotsStep ==
    /\ pc = "slots" /\ exc = ""
    /\ i <= Len(pending_jobs)
    /\ IF slots_reservation_raises(pending_jobs[i], max_slots_filter)
       THEN /\ exc' = "ZeroDivisionError"
            /\ UNCHANGED << pending_jobs, i >>
       ELSE /\ pending_jobs' = [pending_jobs EXCEPT
                                  ![i] = slots_reservation_job(pending_jobs[i], max_slots_filter)]
            /\ i' = i + 1
            /\ exc' = exc
    /\ UNCHANGED << max_slots_filter, max_nodes_filter, filter_by_pending_reasons,
                    max_gpus_per_node, pc, ret, reported, before_gpu >>

\* The slots pass returns; line 80 calls the GPU pass.
SlotsReturn ==
    /\ pc = "slots" /\ exc = ""
    /\ i > Len(pending_jobs)
    /\ pc' = "gpu"
    /\ before_gpu' = pending_jobs
    /\ UNCHANGED << pending_jobs, max_slots_filter, max_nodes_filter,
                    filter_by_pending_reasons, max_gpus_per_node, i, ret, exc, reported >>

\* Lines 168-170: the GPU pass returns without looking at a job.
GpuDisabled ==
    /\ pc = "gpu" /\ exc = ""
    /\ gpu_pass_disabled(max_gpus_per_node)
    /\ pc' = "filter"
    /\ UNCHANGED << pending_jobs, max_slots_filter, max_nodes_filter,
                    filter_by_pending_reasons, max_gpus_per_node, i, ret, exc,
                    reported, before_gpu >>

\* Line 172: the GPU pass starts its loop.
GpuEnter ==
    /\ pc = "gpu" /\ exc = ""
    /\ ~gpu_pass_disabled(max_gpus_per_node)
    /\ pc' = "gpu_job"
    /\ i' = 1
    /\ UNCHANGED << pending_jobs, max_slots_filter, max_nodes_filter,
                    filter_by_pending_reasons, max_gpus_per_node, ret, exc,
                    reported, before_gpu >>

\* Lines 173-179 for job i.
GpuPerJobStep ==
    /\ pc = "gpu_job" /\ exc = ""
    /\ i <= Len(pending_jobs)
    /\ IF gpu_per_job_raises(pending_jobs[i], max_gpus_per_node)
       THEN /\ exc' = "ZeroDivisionError"
            /\ UNCHANGED << pending_jobs, pc >>
       ELSE /\ pending_jobs' = [pending_jobs EXCEPT
                                  ![i] = gpu_per_job(pending_jobs[i], max_gpus_per_node)]
            /\ pc' = "gpu_task"
            /\ exc' = exc
    /\ UNCHANGED << max_slots_filter, max_nodes_filter, filter_by_pending_reasons,
                    max_gpus_per_node, i, ret, reported, before_gpu >>

\* Lines 181-188 for job i.
GpuPerTaskStep ==
    /\ pc = "gpu_task" /\ exc = ""
    /\ IF gpu_per_task_raises(pending_jobs[i], max_gpus_per_node)
       THEN /\ exc' = "ZeroDivisionError"
            /\ UNCHANGED << pending_jobs, pc, i >>
       ELSE /\ pending_jobs' = [pending_jobs EXCEPT
                                  ![i] = gpu_per_task(pending_jobs[i], max_gpus_per_node)]
            /\ pc' = "gpu_job"
            /\ i' = i + 1
            /\ exc' = exc
    /\ UNCHANGED << max_slots_filter, max_nodes_filter, filter_by_pending_reasons,
                    max_gpus_per_node, ret, reported, before_gpu >>

\* The GPU pass has handled every job and returns.
GpuReturn ==
    /\ pc = "gpu_job" /\ exc = ""
    /\ i > Len(pending_jobs)
    /\ pc' = "filter"
    /\ UNCHANGED << pending_jobs, max_slots_filter, max_nodes_filter,
                    filter_by_pending_reasons, max_gpus_per_node, i, ret, exc,
                    reported, before_gpu >>

\* Lines 81-105: the filter, and the return.
Filter ==
    /\ pc = "filter" /\ exc = ""
    /\ ret' = filtered_jobs(pending_jobs, max_slots_filter, max_nodes_filter,
                            filter_by_pending_reasons)
    /\ pc' = "returned"
    /\ UNCHANGED << pending_jobs, max_slots_filter, max_nodes_filter,
                    filter_by_pending_reasons, max_gpus_per_node, i, exc,
                    reported, before_gpu >>

Next ==
    \/ EnterRecompute
    \/ SkipRecompute
    \/ SlotsStep
    \/ SlotsReturn
    \/ GpuDisabled
    \/ GpuEnter
    \/ GpuPerJobStep
    \/ GpuPerTaskStep
    \/ GpuReturn
    \/ Filter

\* ------------------------------------------------------------ initial states
\* The arguments get_pending_jobs_info documents: a slot and a node maximum are
\* positive when given.
SlotsArgs == {None} \cup (1 .. MaxSlots)

NodesArgs == {None} \cup (1 .. MaxNodesFilter)

GpusArgs == (-1) .. MaxGpusPerNode

\* The state when get_jobs_info has returned jobs (line 77).
Called(jobs) ==
    /\ pending_jobs = jobs
    /\ reported = jobs
    /\ before_gpu = jobs
    /\ pc = "start"
    /\ i = 1
    /\ ret = <<>>
    /\ exc = ""

\* The squeue rows the source quotes: lines 205-207 in full; lines 122, 157 and
\* 163 with the columns the quoted command leaves out taken from the sbatch
\* command quoted with them (-c 3 -n 5; --gpus=12; --gpus-per-task=2 -n 3).
SqueueRows ==
    { SlurmJob(72, 2, 5, 5, 1, 1, "Resources", EmptyDict, EmptyDict, EmptyDict),
      SlurmJob(86, 10, 40, 4, 4, 4, "PartitionConfig", GpuDict(12), EmptyDict, EmptyDict),
      SlurmJob(87, 10, 10, 10, 1, 1, "PartitionNodeLimit", EmptyDict, GpuDict(4), EmptyDict),
      SlurmJob(91, 4, 15, 5, 3, 3,
               "Nodes required for job are DOWN, DRAINED or reserved for jobs in higher priority partitions",
               EmptyDict, EmptyDict, EmptyDict),
      SlurmJob(79, 1, 1, 1, 1, 1, "ReqNodeNotAvail, May be reserved for other job",
               GpuDict(12), EmptyDict, EmptyDict),
      SlurmJob(92, 1, 3, 3, 1, 1, "ReqNodeNotAvail, May be reserved for other job",
               EmptyDict, GpuDict(2), EmptyDict) }

\* Lists of up to MaxJobs of these rows, no job listed twice.
RowLists ==
    UNION { { s \in [1 .. n -> SqueueRows] : \A a, b \in 1 .. n : a # b => s[a].id # s[b].id }
            : n \in 0 .. MaxJobs }

\* One call on a squeue listing, any arguments.
Init ==
    /\ \E jobs \in RowLists : Called(jobs)
    /\ max_slots_filter \in SlotsArgs
    /\ max_nodes_filter \in NodesArgs
    /\ filter_by_pending_reasons \in { {}, PENDING_RESOURCES_REASONS }
    /\ max_gpus_per_node \in GpusArgs

Spec == Init /\ [][Next]_vars

\* A tres column: N/A, or gpu:g.
TresDicts == {EmptyDict} \cup { GpuDict(g) : g \in 0 .. MaxGpus }

\* Every job within the bounds; tres_per_node, which no code of the module
\* reads, is N/A or gpu:MaxGpus.
JobRecords ==
    { SlurmJob(1, n, c, t, 1, m, "Resources", tj, tt, tn) :
        n \in 1 .. MaxNodes, c \in 0 .. MaxCpus, t \in 0 .. MaxTasks,
        m \in 0 .. MaxMinCpus, tj \in TresDicts, tt \in TresDicts,
        tn \in {EmptyDict, GpuDict(MaxGpus)} }

\* One call on a listing of one job, every job within the bounds.
InitJob ==
    /\ \E job \in JobRecords : Called(<< job >>)
    /\ max_slots_filter \in SlotsArgs
    /\ max_nodes_filter = None
    /\ filter_by_pending_reasons = {}
    /\ max_gpus_per_node \in GpusArgs

SpecJob == InitJob /\ [][Next]_vars

\* ------------------------------------------------------------------ claims
\* The job the running pass handles next.
Job == pending_jobs[i]

\* The least n with n * b >= a: the ceiling of a / b, for a >= 0 and b > 0.
Ceiling(a, b) == CHOOSE n \in 0 .. a : n * b >= a /\ (n = 0 \/ (n - 1) * b < a)

\* C1: in the slots pass, a job with cpus_min_per_node = 0 or with
\* cpus_min_per_node above the (positive) node slots is skipped: the step raises
\* no error and leaves the job's nodes as they were.
C1_SlotsPassSkipsWithoutError ==
    [][ ( /\ pc = "slots" /\ exc = "" /\ i <= Len(pending_jobs)
          /\ max_slots_filter > 0
          /\ (Job.cpus_min_per_node = 0 \/ max_slots_filter < Job.cpus_min_per_node) )
        => (exc' = "" /\ pending_jobs'[i].nodes = pending_jobs[i].nodes) ]_vars

\* C2: no step of the call lowers the nodes of a job.
C2_NodesNeverDecrease ==
    [][ /\ Len(pending_jobs') = Len(pending_jobs)
        /\ \A j \in 1 .. Len(pending_jobs) : pending_jobs'[j].nodes >= pending_jobs[j].nodes ]_vars

\* C2 witness: both passes have raised the nodes of the job, one after the other.
C2_Witness ==
    /\ pc = "filter"
    /\ Len(pending_jobs) >= 1
    /\ before_gpu[1].nodes > reported[1].nodes
    /\ pending_jobs[1].nodes > before_gpu[1].nodes

\* Both passes are over (or were not called) and the call has not raised.
Reconciled == pc \in {"filter", "returned"} /\ exc = ""

\* C3 as stated: after both passes, a job whose nodes are above the reported
\* nodes has cpus_total >= nodes * cpus_min_per_node.
C3_RaisedNodesHaveCpuFloor ==
    Reconciled =>
        \A j \in 1 .. Len(pending_jobs) :
            pending_jobs[j].nodes > reported[j].nodes
                => pending_jobs[j].cpus_total >= pending_jobs[j].nodes * pending_jobs[j].cpus_min_per_node

\* C3 amended: after both passes, a job whose nodes the GPU pass raised has
\* cpus_total >= nodes * cpus_min_per_node.
C3_GpuRaisedNodesHaveCpuFloor ==
    Reconciled =>
        \A j \in 1 .. Len(pending_jobs) :
            pending_jobs[j].nodes > before_gpu[j].nodes
                => pending_jobs[j].cpus_total >= pending_jobs[j].nodes * pending_jobs[j].cpus_min_per_node

\* C3 witness: the GPU pass raised the nodes of a job and its cpus_total with them.
C3_Witness ==
    /\ Reconciled
    /\ Len(pending_jobs) >= 1
    /\ pending_jobs[1].nodes > before_gpu[1].nodes
    /\ pending_jobs[1].cpus_total > before_gpu[1].cpus_total
    /\ pending_jobs[1].cpus_min_per_node > 0

\* C4: the per-task step, for a job with a per-task "gpu" entry g > 0, raises no
\* error and leaves nodes = max(nodes, ceil(tasks / floor(gpus_per_node / g))),
\* with cpus_total raised to nodes * cpus_min_per_node when nodes were raised.
C4_PerTaskGpuArithmetic ==
    [][ ( /\ pc = "gpu_task" /\ exc = ""
          /\ "gpu" \in DOMAIN Job.tres_per_task
          /\ Job.tres_per_task["gpu"] > 0 )
        => /\ exc' = ""
           /\ LET tasksPerNode == max_gpus_per_node \div Job.tres_per_task["gpu"]
                  newMinNodes == Ceiling(Job.tasks, tasksPerNode)
              IN  /\ pending_jobs'[i].nodes = Max(Job.nodes, newMinNodes)
                  /\ pending_jobs'[i].cpus_total =
                        IF newMinNodes > Job.nodes
                        THEN Max(Job.cpus_total, newMinNodes * Job.cpus_min_per_node)
                        ELSE Job.cpus_total ]_vars

\* C5: the GPU pass runs whenever max_gpus_per_node > 0, also when no
\* max_slots_filter is given: afterwards a job with a per-job "gpu" entry g has
\* at least ceil(g / max_gpus_per_node) nodes.
C5_GpuPassRunsWithoutSlotsFilter ==
    (Reconciled /\ max_gpus_per_node > 0) =>
        \A j \in 1 .. Len(pending_jobs) :
            "gpu" \in DOMAIN pending_jobs[j].tres_per_job
                => pending_jobs[j].nodes >= Ceiling(pending_jobs[j].tres_per_job["gpu"], max_gpus_per_node)

\* C6: the slots step, for a job with 0 < cpus_min_per_node <= node slots, sets
\* nodes to max(nodes, ceil(cpus_total / usable)), usable being the node slots
\* less their remainder by cpus_min_per_node, and changes nothing else of the job.
C6_SlotsArithmetic ==
    [][ ( /\ pc = "slots" /\ exc = "" /\ i <= Len(pending_jobs)
          /\ 0 < Job.cpus_min_per_node
          /\ Job.cpus_min_per_node <= max_slots_filter )
        => /\ exc' = ""
           /\ LET usableSlotsPerNode == max_slots_filter - (max_slots_filter % Job.cpus_min_per_node)
                  requiredNodes == Ceiling(Job.cpus_total, usableSlotsPerNode)
              IN  pending_jobs'[i] = [Job EXCEPT !.nodes = Max(Job.nodes, requiredNodes)] ]_vars

\* C6 witness: the slots pass has raised the nodes of a job for which the node
\* slots are no multiple of cpus_min_per_node.
C6_Witness ==
    /\ pc = "slots" /\ exc = "" /\ i = 2
    /\ pending_jobs[1].cpus_min_per_node > 0
    /\ max_slots_filter % pending_jobs[1].cpus_min_per_node # 0
    /\ pending_jobs[1].nodes > reported[1].nodes
    /\ pending_jobs[1].cpus_total = reported[1].cpus_total

\* C7: the per-job step, for a job with a per-job "gpu" entry g, takes
\* newMinNodes = ceil(g / gpus_per_node); above the job's nodes it becomes the
\* nodes and cpus_total becomes max(cpus_total, nodes * cpus_min_per_node);
\* otherwise the job stays as it was.
C7_PerJobGpuArithmetic ==
    [][ ( /\ pc = "gpu_job" /\ exc = "" /\ i <= Len(pending_jobs)
          /\ "gpu" \in DOMAIN Job.tres_per_job )
        => /\ exc' = ""
           /\ LET newMinNodes == Ceiling(Job.tres_per_job["gpu"], max_gpus_per_node)
              IN  IF newMinNodes > Job.nodes
                  THEN pending_jobs'[i] =
                         [Job EXCEPT !.nodes = newMinNodes,
                                     !.cpus_total = Max(Job.cpus_total, newMinNodes * Job.cpus_min_per_node)]
                  ELSE pending_jobs'[i] = Job ]_vars

\* C7 witness: the per-job step has raised the nodes of a job, and its cpus_total
\* to the floor.
C7_Witness ==
    /\ pc = "gpu_task" /\ exc = "" /\ i = 1
    /\ "gpu" \in DOMAIN pending_jobs[1].tres_per_job
    /\ pending_jobs[1].nodes > before_gpu[1].nodes
    /\ pending_jobs[1].cpus_total > before_gpu[1].cpus_total
    /\ pending_jobs[1].cpus_total = pending_jobs[1].nodes * pending_jobs[1].cpus_min_per_node

\* The filter's test of one job, as the three constraints state it.
Kept(job) ==
    /\ (max_slots_filter = None \/ job.cpus_min_per_node <= max_slots_filter)
    /\ (max_nodes_filter = None \/ job.nodes <= max_nodes_filter)
    /\ (filter_by_pending_reasons = {} \/ job.pending_reason \in filter_by_pending_reasons)

\* C8: the call returns the jobs that violate no given constraint, in the order
\* of the list; with no constraint given, the list itself.
C8_FilterKeepsExactlyTheFittingJobs ==
    (pc = "returned") =>
        /\ ret = SelectSeq(pending_jobs, Kept)
        /\ (max_slots_filter = None /\ max_nodes_filter = None /\ filter_by_pending_reasons = {}
              => ret = pending_jobs)

\* C8 witness: of three jobs the middle one is dropped and the other two returned.
C8_Witness ==
    /\ pc = "returned"
    /\ Len(pending_jobs) = 3
    /\ Len(ret) = 2
    /\ ret[1] = pending_jobs[1]
    /\ ret[2] = pending_jobs[3]

\* C9: with max_gpus_per_node <= 0 the GPU pass never enters its loop, raises
\* no error, and returns with every job as it was when the pass was called.
C9_GpuPassDisabledChangesNothing ==
    (max_gpus_per_node <= 0) =>
        /\ pc \notin {"gpu_job", "gpu_task"}
        /\ (pc \in {"filter", "returned"} => pending_jobs = before_gpu)

\* C9 witness: the GPU pass has returned, max_gpus_per_node being 0, for a job
\* with a per-job and a per-task "gpu" entry.
C9_Witness ==
    /\ pc = "filter" /\ exc = ""
    /\ max_gpus_per_node = 0
    /\ Truthy(max_slots_filter)
    /\ Len(pending_jobs) >= 1
    /\ Truthy(Get(pending_jobs[1].tres_per_job, "gpu"))
    /\ Truthy(Get(pending_jobs[1].tres_per_task, "gpu"))
    /\ Truthy(Get(pending_jobs[1].tres_per_node, "gpu"))
    /\ pending_jobs = before_gpu

\* The ids of the returned jobs.
ReturnedIds == { ret[k].id : k \in 1 .. Len(ret) }

\* C10: the GPU pass works on what the slots pass left, and the filter on what
\* both left: the nodes at the filter are at least those the slots pass left,
\* and a job whose nodes are then above max_nodes_filter is not returned, also
\* when its reported nodes were within max_nodes_filter.
C10_StepsObserveTheStepBefore ==
    /\ pc \in {"start", "slots"} => before_gpu = reported
    /\ pc \in {"filter", "returned"} =>
          \A j \in 1 .. Len(pending_jobs) : pending_jobs[j].nodes >= before_gpu[j].nodes
    /\ pc = "returned" =>
          \A j \in 1 .. Len(pending_jobs) :
              (max_nodes_filter # None /\ pending_jobs[j].nodes > max_nodes_filter)
                  => pending_jobs[j].id \notin ReturnedIds

\* C10 witness: a job reported within max_nodes_filter and raised above it is
\* not returned though it passes the other two tests, and the GPU pass computed,
\* for a job the slots pass had raised, a minimum between the reported nodes and
\* the nodes the slots pass left.
C10_Witness ==
    /\ pc = "returned"
    /\ max_nodes_filter # None
    /\ \E j \in 1 .. Len(pending_jobs) :
          /\ reported[j].nodes <= max_nodes_filter
          /\ pending_jobs[j].nodes > max_nodes_filter
          /\ pending_jobs[j].cpus_min_per_node <= max_slots_filter
          /\ (filter_by_pending_reasons = {} \/ pending_jobs[j].pending_reason \in filter_by_pending_reasons)
          /\ pending_jobs[j].id \notin ReturnedIds
    /\ max_gpus_per_node > 0
    /\ \E j \in 1 .. Len(pending_jobs) :
          /\ "gpu" \in DOMAIN pending_jobs[j].tres_per_task
          /\ LET perNode == max_gpus_per_node \div pending_jobs[j].tres_per_task["gpu"]
             IN  /\ perNode > 0
                 /\ Ceiling(pending_jobs[j].tasks, perNode) > reported[j].nodes
                 /\ Ceiling(pending_jobs[j].tasks, perNode) < before_gpu[j].nodes

====
